---------------------------- MODULE Spec2Model ----------------------------
(***************************************************************************)
(* TravelPlanSolver (src/server/solver/smt-solver.py): a trip description  *)
(* is formalized into solver variables and constraints, the solver is      *)
(* asked for satisfiability, and the outcome is decoded into one of four   *)
(* result documents.                                                       *)
(*                                                                         *)
(* Numbers.  Every numeric constant the formalizer hands to the solver is  *)
(* a multiple of 0.5 when the trip's numbers are integers, so a real       *)
(* constant c is stored as the integer 2*c ("halves").  Solver variables   *)
(* range over the rationals; the decision procedure below is exact for the *)
(* linear atoms the formalizer emits and never enumerates values.          *)
(***************************************************************************)
EXTENDS Integers, Sequences, FiniteSets, TLC

VARIABLES
    pc,            \* "start" | "constructed" | "done": position of the caller
    solver,        \* the TravelPlanSolver instance (self)
    calls,         \* solve_travel_plan calls made on this instance
    problem_data,  \* argument of the last solve_travel_plan call
    result,        \* dictionary returned by the last call
    raised,        \* exception caught by solve_travel_plan in the last call
    check_result,  \* what self.solver.check() answered in the last call
    entry,         \* sizes of self.variables / self.constraints at call entry
    prev           \* description and result of the call before the last one

vars == <<pc, solver, calls, problem_data, result, raised, check_result, entry, prev>>

---------------------------------------------------------------------------
(* Bounds of the model *)

\* execution_time is drawn from 0 .. MaxElapsed milliseconds
MaxElapsed == 1
\* solve_travel_plan calls a library caller makes on one instance
MaxCalls == 2

---------------------------------------------------------------------------
(* Python values *)

\* an optional dictionary entry: << >> when the key is absent, <<v>> otherwise
Absent == << >>
Has(o) == Len(o) > 0
\* truthiness of data.get(key) for numbers, strings and lists
TruthyNum(o) == Has(o) /\ o[1] # 0
TruthyStr(o) == Has(o) /\ o[1] # ""
TruthyList(o) == Has(o) /\ Len(o[1]) > 0

Min(S) == CHOOSE x \in S : \A y \in S : x <= y
Max(S) == CHOOSE x \in S : \A y \in S : x >= y

\* a real constant, in halves
Half(n) == 2 * n

\* str.lower() on the letters the categories use
LowerChar(c) ==
    CASE c = "A" -> "a" [] c = "C" -> "c" [] c = "M" -> "m" [] c = "P" -> "p"
      [] c = "S" -> "s" [] c = "U" -> "u" [] OTHER -> c
Lower(s) == [i \in DOMAIN s |-> LowerChar(s[i])]
\* sub in s (substring test)
Contains(sub, s) ==
    \E i \in 1..(Len(s) - Len(sub) + 1) : SubSeq(s, i, i + Len(sub) - 1) = sub

museum == <<"m", "u", "s", "e", "u", "m">>
cultural == <<"c", "u", "l", "t", "u", "r", "a", "l">>

\* a category value: a string (sequence of characters) or JSON null
StrVal(s) == [null |-> FALSE, s |-> s]
NullVal == [null |-> TRUE, s |-> << >>]

---------------------------------------------------------------------------
(* Solver expressions.  One record shape for every atom:                    *)
(*   ge     x >= lo            le     x <= hi                               *)
(*   range  And(x >= lo, x <= hi)                                           *)
(*   gt     x > y              sum    x == sum(parts)                       *)
(*   lemul  x <= y * k         istrue x == True                             *)
Atom(op, x, y, lo, hi, k, parts) ==
    [op |-> op, x |-> x, y |-> y, lo |-> lo, hi |-> hi, k |-> k, parts |-> parts]
Ge(x, c) == Atom("ge", x, "", c, 0, 0, {})
Le(x, c) == Atom("le", x, "", 0, c, 0, {})
AndRange(x, lo, hi) == Atom("range", x, "", lo, hi, 0, {})
Gt(x, y) == Atom("gt", x, y, 0, 0, 0, {})
SumEq(x, parts) == Atom("sum", x, "", 0, 0, 0, parts)
LeMul(x, y, k) == Atom("lemul", x, y, 0, 0, k, {})
IsTrue(x) == Atom("istrue", x, "", 0, 0, 0, {})

\* the solver variables an expression mentions
Mentions(a) ==
    {a.x} \cup (IF a.op \in {"gt", "lemul"} THEN {a.y} ELSE {}) \cup a.parts

---------------------------------------------------------------------------
(* TravelPlanSolver state and its two primitives.  `exc` is "" until a      *)
(* statement of _formalize_problem raises; later statements are skipped.    *)

TravelPlanSolver__init__ ==
    [variables |-> << >>,          \* name -> sort
     constraints |-> << >>,        \* list of {name, expression, is_hard}
     constraint_names |-> << >>,   \* name -> expression
     assertions |-> {},            \* self.solver: formulas given to add()
     tracked |-> << >>,            \* self.solver: assert_and_track(expr, name), in order
     exc |-> ""]

Put(f, key, val) == [k \in DOMAIN f \cup {key} |-> IF k = key THEN val ELSE f[k]]

SortOf(var_type) ==
    CASE var_type = "int" -> "Int" [] var_type = "bool" -> "Bool" [] OTHER -> "Real"

add_variable(self, name, var_type, domain) ==
    IF self.exc # "" THEN self
    ELSE
      [self EXCEPT
        !.variables = Put(@, name, SortOf(var_type)),
        !.assertions =
            IF var_type = "bool" THEN @
            ELSE @ \cup (IF "min" \in DOMAIN domain THEN {Ge(name, domain["min"])} ELSE {})
                   \cup (IF "max" \in DOMAIN domain THEN {Le(name, domain["max"])} ELSE {})]

\* add_constraint taking the assert_and_track branch
add_constraint_tracked(self, constraint_expr, name, is_hard) ==
    IF self.exc # "" THEN self
    ELSE
      [self EXCEPT
        !.tracked = Append(@, [name |-> name, expression |-> constraint_expr]),
        !.constraints = Append(@, [name |-> name, expression |-> constraint_expr,
                                   is_hard |-> FALSE]),
        !.constraint_names = Put(@, name, constraint_expr)]

add_constraint(self, constraint_expr, name, is_hard) ==
    IF self.exc # "" THEN self
    ELSE
      [self EXCEPT
        !.assertions = IF is_hard THEN @ \cup {constraint_expr} ELSE @,
        !.tracked = IF is_hard THEN @
                    ELSE Append(@, [name |-> name, expression |-> constraint_expr]),
        !.constraints = Append(@, [name |-> name, expression |-> constraint_expr,
                                   is_hard |-> is_hard]),
        !.constraint_names = Put(@, name, constraint_expr)]

NoDomain == << >>

---------------------------------------------------------------------------
(* Program constants of _formalize_problem *)

DayMax == 365
DefaultPrice == 100
DefaultMinHotel == 50
DefaultMaxHotel == 300
DefaultDuration == 3
avg_activity_cost == 25
\* 0.5, 4.0 and 1.0, in halves
ActivitiesPerDayMin == 1
ActivitiesPerDayMax == 8
TotalActivitiesMin == 2

\* data.get('duration', 3): the default only when the key is absent
DurationOr3(data) == IF Has(data.duration) THEN data.duration[1] ELSE DefaultDuration

\* Zeitvariablen
DateBlock(self, data) ==
    IF TruthyStr(data.start_date) /\ TruthyStr(data.end_date)
    THEN LET s1 == add_variable(self, "start_day", "int", [min |-> 0, max |-> Half(DayMax)])
             s2 == add_variable(s1, "end_day", "int", [min |-> 0, max |-> Half(DayMax)])
         IN  add_constraint(s2, Gt("end_day", "start_day"), "valid_date_range", TRUE)
    ELSE self

\* Accommodation costs
AccommodationBlock(self, data) ==
    IF TruthyList(data.hotels)
    THEN LET s1 == add_variable(self, "accommodation_cost", "real", [min |-> 0])
             hotels == data.hotels[1]
             hotel_costs == {IF Has(hotels[i].price_per_night)
                             THEN hotels[i].price_per_night[1] ELSE DefaultPrice
                             : i \in DOMAIN hotels}
             min_hotel_cost == IF hotel_costs # {} THEN Min(hotel_costs) ELSE DefaultMinHotel
             max_hotel_cost == IF hotel_costs # {} THEN Max(hotel_costs) ELSE DefaultMaxHotel
             duration == DurationOr3(data)
         IN  add_constraint(s1,
                 AndRange("accommodation_cost", Half(min_hotel_cost * duration),
                          Half(max_hotel_cost * duration)),
                 "accommodation_cost_range", TRUE)
    ELSE self

\* Activity costs
ActivityCostBlock(self, data) ==
    IF TruthyList(data.attractions)
    THEN LET s1 == add_variable(self, "activity_cost", "real", [min |-> 0])
             num_activities == Min({Len(data.attractions[1]), DurationOr3(data) * 2})
         IN  add_constraint(s1, Le("activity_cost", Half(avg_activity_cost * num_activities)),
                            "activity_cost_estimate", TRUE)
    ELSE self

\* Total budget constraint
TotalBlock(self, data) ==
    LET cost_components ==
            {v \in {"accommodation_cost", "activity_cost"} : v \in DOMAIN self.variables}
    IN  IF cost_components # {}
        THEN LET s1 == add_variable(self, "calculated_total", "real", NoDomain)
                 s2 == add_constraint(s1, SumEq("calculated_total", cost_components),
                                      "total_cost_calculation", TRUE)
             IN  add_constraint(s2, Le("calculated_total", Half(data.budget[1])),
                                "budget_limit", TRUE)
        ELSE self

\* Budget-Constraints
BudgetBlock(self, data) ==
    IF TruthyNum(data.budget)
    THEN LET s1 == add_variable(self, "total_cost", "real", [min |-> 0])
         IN  TotalBlock(ActivityCostBlock(AccommodationBlock(s1, data), data), data)
    ELSE self

\* a.get('category', '').lower() raises AttributeError on a null category
CategoryRaises(data) ==
    \E i \in DOMAIN data.attractions[1] :
        LET c == data.attractions[1][i].category IN Has(c) /\ c[1].null

cultural_attractions(data) ==
    {i \in DOMAIN data.attractions[1] :
        LET c == data.attractions[1][i].category
            category == IF Has(c) THEN c[1].s ELSE << >>
        IN  Contains(museum, Lower(category)) \/ Contains(cultural, Lower(category))}

\* one iteration of the preference loop; i is the 0-based index of enumerate()
PreferenceStep(self, data, i, pref) ==
    LET pref_var == "preference_" \o ToString(i) \o "_" \o pref
        s1 == add_variable(self, pref_var, "bool", NoDomain)
    IN  IF pref = "culture" /\ TruthyList(data.attractions)
        THEN IF s1.exc # "" THEN s1
             ELSE IF CategoryRaises(data)
             THEN [s1 EXCEPT !.exc = "'NoneType' object has no attribute 'lower'"]
             ELSE IF cultural_attractions(data) # {}
             THEN add_constraint(s1, IsTrue(pref_var), "culture_preference_satisfied", TRUE)
             ELSE s1
        ELSE IF pref = "budget" /\ TruthyNum(data.budget)
        THEN add_constraint(s1, IsTrue(pref_var), "budget_preference_considered", TRUE)
        ELSE s1

RECURSIVE PreferenceLoop(_, _, _, _)
PreferenceLoop(self, data, preferences, n) ==
    IF n = 0 THEN self
    ELSE PreferenceStep(PreferenceLoop(self, data, preferences, n - 1),
                        data, n - 1, preferences[n])

\* Praeferenz-Constraints; data.get('preferences', [])
PreferenceBlock(self, data) ==
    LET preferences == IF Has(data.preferences) THEN data.preferences[1] ELSE << >>
    IN  IF Len(preferences) > 0
        THEN PreferenceLoop(self, data, preferences, Len(preferences))
        ELSE self

\* the hotel block without its gate
HotelBlock_ungated(self, data) ==
    add_constraint(add_variable(self, "hotel_selected", "bool", NoDomain),
                   IsTrue("hotel_selected"), "hotel_availability", TRUE)

HotelBlock(self, data) ==
    IF TruthyList(data.hotels)
    THEN add_constraint(add_variable(self, "hotel_selected", "bool", NoDomain),
                        IsTrue("hotel_selected"), "hotel_availability", TRUE)
    ELSE self

SchedulingBlock(self, data) ==
    IF TruthyList(data.attractions) /\ TruthyNum(data.duration)
    THEN LET num_attractions == Len(data.attractions[1])
             duration == DurationOr3(data)
             s1 == add_variable(self, "activities_per_day", "real",
                                [min |-> ActivitiesPerDayMin, max |-> ActivitiesPerDayMax])
             s2 == add_variable(s1, "total_activities_planned", "real",
                                [min |-> TotalActivitiesMin])
             s3 == add_constraint(s2,
                       LeMul("total_activities_planned", "activities_per_day", duration),
                       "activity_scheduling_upper", TRUE)
             s4 == add_constraint(s3, Le("total_activities_planned", Half(num_attractions)),
                                  "activity_availability", TRUE)
         IN  \* duration * 0.5, in halves
             add_constraint(s4, Ge("total_activities_planned", duration),
                            "minimum_activities", TRUE)
    ELSE self

_formalize_problem(self, data) ==
    SchedulingBlock(HotelBlock(PreferenceBlock(BudgetBlock(DateBlock(self, data),
        data), data), data), data)

---------------------------------------------------------------------------
(* The solver (z3).  Check decides the conjunction of a set of atoms over   *)
(* the rationals (Int variables over the integers).  The atoms fall into    *)
(* groups that share no variable: the two day variables, the cost           *)
(* variables, the two activity variables, the Booleans.  Every numeric      *)
(* variable but calculated_total is declared with a lower bound, and each   *)
(* cost component gets its upper bound in the block that declares it.       *)

LoSet(A, v) == {a.lo : a \in {b \in A : b.x = v /\ b.op \in {"ge", "range"}}}
HiSet(A, v) == {a.hi : a \in {b \in A : b.x = v /\ b.op \in {"le", "range"}}}
VarsOf(A) == UNION {Mentions(a) : a \in A}

\* every variable's lower bounds lie under its upper bounds
IntervalsOk(A) == \A v \in VarsOf(A) : \A l \in LoSet(A, v), h \in HiSet(A, v) : l <= h

\* x > y over the integers: the largest x exceeds the smallest y by one
GtOk(A) ==
    \A a \in {b \in A : b.op = "gt"} :
        \A l \in LoSet(A, a.y), h \in HiSet(A, a.x) : l + Half(1) <= h

RECURSIVE SumOver(_, _, _)
SumOver(A, S, pickMax) ==
    IF S = {} THEN 0
    ELSE LET v == CHOOSE w \in S : TRUE
         IN  (IF pickMax THEN Min(HiSet(A, v)) ELSE Max(LoSet(A, v)))
             + SumOver(A, S \ {v}, pickMax)

\* x == sum(parts), possibly asserted with several lists of parts (at most
\* two distinct component variables exist).  Two lists that differ by one
\* variable force it to 0; what is left of each list ranges over the sum of
\* its intervals, and x needs one value in all these ranges and in its own.
SumOk(A) ==
    \A x \in {a.x : a \in {b \in A : b.op = "sum"}} :
        LET forms == {a.parts : a \in {b \in A : b.op = "sum" /\ b.x = x}}
            zero == {v \in UNION forms :
                        \E f \in forms, g \in forms : v \in f /\ g = f \ {v}}
            lows == {SumOver(A, f \ zero, FALSE) : f \in forms} \cup LoSet(A, x)
            highs == {SumOver(A, f \ zero, TRUE) : f \in forms} \cup HiSet(A, x)
        IN  /\ \A v \in zero : /\ \A l \in LoSet(A, v) : l <= 0
                               /\ \A h \in HiSet(A, v) : 0 <= h
            /\ \A l \in lows, h \in highs : l <= h

\* x <= y * k with y > 0: the largest product lies at an end of y's interval
LeMulOk(A) ==
    \A a \in {b \in A : b.op = "lemul"} :
        LET best == IF a.k > 0 THEN a.k * Min(HiSet(A, a.y)) ELSE a.k * Max(LoSet(A, a.y))
        IN  \A l \in LoSet(A, a.x) : l <= best

Check(A) == IF IntervalsOk(A) /\ GtOk(A) /\ SumOk(A) /\ LeMulOk(A) THEN "sat" ELSE "unsat"

AllAssertions(self) == self.assertions \cup {self.tracked[i].expression : i \in DOMAIN self.tracked}

\* self.solver.check(): sat or unsat on these linear problems; unknown when
\* the solver gives up (resource limit, interruption)
solver_check(self, giveup) == IF giveup THEN "unknown" ELSE Check(AllAssertions(self))

\* self.solver.model(): the constants that occur in an asserted formula get a
\* value; model[var] is None for any other variable
ModelVars(self) == VarsOf(AllAssertions(self))

RECURSIVE Pick(_, _, _)
\* the entries of seq whose index is in S, in order
Pick(seq, S, n) ==
    IF n = 0 THEN << >>
    ELSE IF n \in S THEN Append(Pick(seq, S, n - 1), seq[n].name)
    ELSE Pick(seq, S, n - 1)

\* self.solver.unsat_core(): tracked names that are contradictory together
\* with the hard assertions (the solver need not return a smallest set)
solver_unsat_core(self) ==
    {Pick(self.tracked, S, Len(self.tracked)) :
        S \in {T \in SUBSET DOMAIN self.tracked :
                 Check(self.assertions \cup {self.tracked[i].expression : i \in T}) = "unsat"}}

---------------------------------------------------------------------------
(* Result decoding *)

\* as_long() / float(as_decimal(10)) / is_true(): the decoded value is kept
\* as the kind of Python value it is; which number the solver chose is not
\* modelled.  A decode that raises stores None under the same key.
Decode(sort) ==
    CASE sort = "Int" -> "int" [] sort = "Real" -> "float" [] sort = "Bool" -> "bool"
      [] OTHER -> "str"

_extract_solution(self) ==
    [var_name \in {n \in DOMAIN self.variables : n \in ModelVars(self)} |->
        Decode(self.variables[var_name])]

_get_unsat_core(self) == solver_unsat_core(self)

---------------------------------------------------------------------------
(* solve_travel_plan *)

\* the dispatch with the else branch folded into the unsat branch
solve_dispatch_unknown_as_unsat(self, r, execution_time) ==
    IF r = "sat"
    THEN {[status |-> "satisfiable", solution |-> _extract_solution(self),
           execution_time |-> execution_time,
           constraints_count |-> Len(self.constraints)]}
    ELSE {[status |-> "unsatisfiable", unsat_core |-> c,
           execution_time |-> execution_time,
           constraints_count |-> Len(self.constraints)] : c \in _get_unsat_core(self)}

\* the three branches on the solver's answer (sat / unsat / else)
solve_dispatch(self, r, execution_time) ==
    IF r = "sat"
    THEN {[status |-> "satisfiable", solution |-> _extract_solution(self),
           execution_time |-> execution_time,
           constraints_count |-> Len(self.constraints)]}
    ELSE IF r = "unsat"
    THEN {[status |-> "unsatisfiable", unsat_core |-> c,
           execution_time |-> execution_time,
           constraints_count |-> Len(self.constraints)] : c \in _get_unsat_core(self)}
    ELSE {[status |-> "timeout", execution_time |-> execution_time]}

\* the outcomes of one call: the instance afterwards, the returned dictionary,
\* the exception the handler caught ("" if none) and the solver's answer
solve_travel_plan(self, problem_data_, giveup, execution_time) ==
    LET f == _formalize_problem(self, problem_data_)
        after == [f EXCEPT !.exc = ""]
    IN  IF f.exc # ""
        THEN {[self |-> after, raised |-> f.exc, check |-> "none",
               result |-> [status |-> "error", error |-> f.exc,
                           execution_time |-> execution_time]]}
        ELSE LET r == solver_check(f, giveup)
             IN  {[self |-> after, raised |-> "", check |-> r, result |-> res] :
                     res \in solve_dispatch(f, r, execution_time)}

---------------------------------------------------------------------------
(* Trip descriptions *)

Trip(sd, ed, b, d, p, h, a) ==
    [start_date |-> sd, end_date |-> ed, budget |-> b, duration |-> d,
     preferences |-> p, hotels |-> h, attractions |-> a]

Hotel(price) == [price_per_night |-> <<price>>]
HotelNoPrice == [price_per_night |-> Absent]
Attraction(name) == [name |-> name, category |-> Absent]
AttractionIn(name, category) == [name |-> name, category |-> <<category>>]

EmptyTrip == Trip(Absent, Absent, Absent, Absent, Absent, Absent, Absent)

\* the four scenarios of test-solver.py
MunichTrip ==
    Trip(Absent, Absent, <<800>>, <<3>>, << <<"culture">> >>,
         << <<Hotel(90)>> >>, << <<Attraction("Marienplatz")>> >>)
ZurichTestTrip ==
    Trip(Absent, Absent, <<200>>, <<5>>, << <<"luxury">> >>,
         << <<Hotel(300)>> >>, << <<Attraction("Lake Zurich")>> >>)
BerlinTrip ==
    Trip(Absent, Absent, <<300>>, <<2>>, << <<"budget">> >>,
         << <<Hotel(60)>> >>, << <<Attraction("Brandenburg Gate")>> >>)
ViennaTrip ==
    Trip(Absent, Absent, <<1200>>, <<4>>, << <<"culture", "dining">> >>,
         << <<Hotel(120), Hotel(180), Hotel(250)>> >>,
         << <<Attraction("Schoenbrunn Palace"), Attraction("Belvedere Palace"),
              Attraction("St. Stephen's Cathedral")>> >>)
\* the budget scenario without attractions
ZurichTrip == Trip(Absent, Absent, <<200>>, <<5>>, Absent, << <<Hotel(300)>> >>, Absent)

MuseumCategory == StrVal(<<"M", "u", "s", "e", "u", "m">>)
ParkCategory == StrVal(<<"P", "a", "r", "k">>)

Dates == {Absent, <<"2025-06-01">>}
Budgets == {Absent, <<0>>, <<200>>, <<800>>}
Durations == {Absent, <<2>>, <<3>>, <<5>>}
Preferences ==
    {Absent, << <<>> >>, << <<"culture">> >>, << <<"luxury">> >>, << <<"budget">> >>,
     << <<"culture", "dining">> >>, << <<"culture", "culture">> >>,
     << <<"budget", "budget">> >>}
Hotels ==
    {Absent, << <<>> >>, << <<Hotel(90)>> >>, << <<Hotel(300)>> >>, << <<HotelNoPrice>> >>,
     << <<Hotel(120), Hotel(180), Hotel(250)>> >>}
Attractions ==
    {Absent,
     << <<Attraction("Marienplatz")>> >>,
     << <<AttractionIn("Deutsches Museum", MuseumCategory)>> >>,
     << <<AttractionIn("Englischer Garten", ParkCategory), Attraction("Marienplatz")>> >>,
     << <<AttractionIn("Unnamed", NullVal)>> >>,
     << <<Attraction("Schoenbrunn Palace"), Attraction("Belvedere Palace"),
          Attraction("St. Stephen's Cathedral")>> >>}

Trips ==
    {Trip(sd, ed, b, d, p, h, a) :
        sd \in Dates, ed \in Dates, b \in Budgets, d \in Durations,
        p \in Preferences, h \in Hotels, a \in Attractions}
    \cup {MunichTrip, ZurichTestTrip, BerlinTrip, ViennaTrip, ZurichTrip}

\* descriptions a caller submits to an instance it keeps
SessionTrips ==
    {EmptyTrip, MunichTrip, ZurichTrip, BerlinTrip, ViennaTrip,
     Trip(Absent, Absent, Absent, Absent, Absent, << <<Hotel(90)>> >>, Absent),
     Trip(Absent, Absent, <<800>>, Absent, Absent, Absent,
          << <<Attraction("Marienplatz")>> >>),
     Trip(<<"2025-06-01">>, <<"2025-06-01">>, Absent, Absent, << <<"luxury">> >>,
          Absent, Absent)}

---------------------------------------------------------------------------
(* The callers *)

NoResult == [status |-> "none"]
NoPrev == [data |-> EmptyTrip, summary |-> NoResult, nth |-> 0]
\* a result without its timing
Summary(r) == [k \in DOMAIN r \ {"execution_time"} |-> r[k]]

Init ==
    /\ pc = "start"
    /\ solver = TravelPlanSolver__init__
    /\ calls = 0
    /\ problem_data = EmptyTrip
    /\ result = NoResult
    /\ raised = ""
    /\ check_result = "none"
    /\ entry = [variables |-> 0, constraints |-> 0, nth |-> 0]
    /\ prev = NoPrev

\* result = solver.solve_travel_plan(problem_data)
SolveStep(data, giveup) ==
    \E t \in 0..MaxElapsed :
        \E o \in solve_travel_plan(solver, data, giveup, t) :
            /\ solver' = o.self
            /\ result' = o.result
            /\ raised' = o.raised
            /\ check_result' = o.check
            /\ problem_data' = data
            /\ calls' = calls + 1
            /\ entry' = [variables |-> Cardinality(DOMAIN solver.variables),
                         constraints |-> Len(solver.constraints),
                         nth |-> calls + 1]
            /\ prev' = IF result.status = "none" THEN prev
                       ELSE [data |-> problem_data, summary |-> Summary(result),
                             nth |-> entry.nth]
            /\ pc' = "done"

\* main: solver = TravelPlanSolver()
main_construct ==
    /\ pc = "start"
    /\ solver' = TravelPlanSolver__init__
    /\ calls' = 0
    /\ pc' = "constructed"
    /\ UNCHANGED <<problem_data, result, raised, check_result, entry, prev>>

\* main: result = solver.solve_travel_plan(problem_data)
main_solve(giveups) ==
    /\ pc = "constructed"
    /\ \E data \in Trips, giveup \in giveups : SolveStep(data, giveup)

\* main: print(json.dumps(result)); the process ends and the next invocation
\* starts from nothing
main_exit ==
    /\ pc = "done"
    /\ pc' = "start"
    /\ solver' = TravelPlanSolver__init__
    /\ calls' = 0
    /\ problem_data' = EmptyTrip
    /\ result' = NoResult
    /\ raised' = ""
    /\ check_result' = "none"
    /\ entry' = [variables |-> 0, constraints |-> 0, nth |-> 0]
    /\ prev' = NoPrev

\* a constructor that hands out one shared session instead of a new one
Construct_shared_session ==
    /\ pc \in {"start", "done"}
    /\ calls' = 0
    /\ pc' = "constructed"
    /\ UNCHANGED <<solver, problem_data, result, raised, check_result, entry, prev>>

\* a caller of the class: TravelPlanSolver()
Construct ==
    /\ pc \in {"start", "done"}
    /\ solver' = TravelPlanSolver__init__
    /\ calls' = 0
    /\ pc' = "constructed"
    /\ UNCHANGED <<problem_data, result, raised, check_result, entry, prev>>

\* a caller of the class: solver.solve_travel_plan(data), on a new instance
\* or on one it has used before
Call ==
    /\ pc \in {"constructed", "done"}
    /\ calls < MaxCalls
    /\ \E data \in SessionTrips : SolveStep(data, FALSE)

\* the command-line program; the solver decides every problem
Next ==
    \/ main_construct
    \/ main_solve({FALSE})
    \/ main_exit
Spec == Init /\ [][Next]_vars

\* the command-line program; the solver may give up
NextAdapter ==
    \/ main_construct
    \/ main_solve(BOOLEAN)
    \/ main_exit
SpecAdapter == Init /\ [][NextAdapter]_vars

\* the class used as a library, instances kept between calls
NextSession ==
    \/ Construct
    \/ Call
SpecSession == Init /\ [][NextSession]_vars

---------------------------------------------------------------------------
(* Properties *)

Done == pc = "done"
ConstraintNames(self) == {self.constraints[i].name : i \in DOMAIN self.constraints}
VariableNames(self) == DOMAIN self.variables

\* no attraction carries a null category (the one value of these trips that
\* makes formalization raise)
WellFormed(data) == ~(Has(data.attractions) /\ CategoryRaises(data))

\* C1: every call ends in exactly one of the four results, chosen by what
\* happened: satisfiable iff check answered sat, unsatisfiable iff unsat,
\* timeout iff unknown, error iff an exception was raised (and caught); each
\* result carries execution_time.
C1_OneTerminalResult ==
    Done =>
        /\ result.status \in {"satisfiable", "unsatisfiable", "timeout", "error"}
        /\ (result.status = "satisfiable" <=> check_result = "sat")
        /\ (result.status = "unsatisfiable" <=> check_result = "unsat")
        /\ (result.status = "timeout" <=> check_result = "unknown")
        /\ (result.status = "error" <=> raised # "")
        /\ (raised # "" => check_result = "none")
        /\ "execution_time" \in DOMAIN result

C1_Witness_Timeout ==
    Done /\ check_result = "unknown" /\ result.status = "timeout"
         /\ solver.constraints # << >>

\* C2: the Munich trip of test-solver.py is reported satisfiable.
C2_MunichSatisfiable ==
    (Done /\ problem_data = MunichTrip) => result.status = "satisfiable"

\* C3: with a non-empty hotels list and a budget set below
\* min(price_per_night) * duration (duration 3 when absent), the result is
\* unsatisfiable.
C3_BudgetBelowHotelCost ==
    (/\ Done
     /\ WellFormed(problem_data)
     /\ TruthyList(problem_data.hotels)
     /\ \A i \in DOMAIN problem_data.hotels[1] : Has(problem_data.hotels[1][i].price_per_night)
     /\ Has(problem_data.budget)
     /\ problem_data.budget[1] <
            Min({problem_data.hotels[1][i].price_per_night[1] :
                    i \in DOMAIN problem_data.hotels[1]}) * DurationOr3(problem_data))
    => result.status = "unsatisfiable"

\* C4: in a satisfiable result every declared variable is a key of solution,
\* with an explicit null when the solver's model has no value for it.
C4_EveryVariableDecoded ==
    (Done /\ result.status = "satisfiable") =>
        \A n \in VariableNames(solver) :
            /\ n \in DOMAIN result.solution
            /\ (n \notin ModelVars(solver) => result.solution[n] = "None")

\* C5: in satisfiable and unsatisfiable results constraints_count is the
\* number of distinct constraint names recorded.
C5_CountIsDistinctNames ==
    (Done /\ result.status \in {"satisfiable", "unsatisfiable"}) =>
        result.constraints_count = Cardinality(ConstraintNames(solver))

\* a trip whose preference loop records one constraint name twice
RepeatsConstraintName(data) ==
    /\ Has(data.preferences)
    /\ \E i, j \in DOMAIN data.preferences[1] :
        /\ i < j
        /\ data.preferences[1][i] = data.preferences[1][j]
        /\ \/ /\ data.preferences[1][i] = "culture"
              /\ TruthyList(data.attractions)
              /\ cultural_attractions(data) # {}
           \/ /\ data.preferences[1][i] = "budget"
              /\ TruthyNum(data.budget)

\* C6: constraint names are unique in the ledger, and a trip whose
\* formalization records a name twice gets the error result.
C6_DuplicateNameIsError ==
    (Done /\ WellFormed(problem_data)) =>
        /\ \A i, j \in DOMAIN solver.constraints :
              i # j => solver.constraints[i].name # solver.constraints[j].name
        /\ RepeatsConstraintName(problem_data) =>
              (result.status = "error" /\ "error" \in DOMAIN result)

\* C7: whatever subset of the fields is present, formalization does not
\* raise, the blocks generated are exactly those whose gating fields are
\* present, and constraints mention declared variables only.
C7_BlocksFollowPresence ==
    (Done /\ WellFormed(problem_data)) =>
        /\ raised = "" /\ result.status # "error"
        /\ ("valid_date_range" \in ConstraintNames(solver)
              <=> (Has(problem_data.start_date) /\ Has(problem_data.end_date)))
        /\ ("total_cost" \in VariableNames(solver) <=> Has(problem_data.budget))
        /\ ("hotel_availability" \in ConstraintNames(solver)
              <=> TruthyList(problem_data.hotels))
        /\ ("minimum_activities" \in ConstraintNames(solver)
              <=> (TruthyList(problem_data.attractions) /\ Has(problem_data.duration)))
        /\ \A i \in DOMAIN solver.constraints :
              Mentions(solver.constraints[i].expression) \subseteq VariableNames(solver)

\* C8: the empty document declares no variable and records no constraint, and
\* is reported satisfiable with constraints_count 0 and an empty solution.
C8_EmptyDocument ==
    (Done /\ problem_data = EmptyTrip) =>
        /\ VariableNames(solver) = {}
        /\ solver.constraints = << >>
        /\ result.status = "satisfiable"
        /\ result.constraints_count = 0
        /\ DOMAIN result.solution = {}

C8_Witness_EmptySolved ==
    Done /\ problem_data = EmptyTrip /\ check_result = "sat"

C10_AllHardEmptyCore ==
    Done =>
        /\ \A i \in DOMAIN solver.constraints : solver.constraints[i].is_hard
        /\ solver.tracked = << >>
        /\ (result.status = "unsatisfiable" => result.unsat_core = << >>)

C10_Witness_Unsat ==
    Done /\ result.status = "unsatisfiable" /\ Len(solver.constraints) > 1
=============================================================================
